---- MODULE Spec2Model ----
(***************************************************************************)
(* Model of the Todo API backend (FastAPI + SQLModel):                     *)
(*   backend/auth.py          verify_token, verify_user_access             *)
(*   backend/schemas.py       TaskCreate / TaskUpdate validation           *)
(*   backend/models.py        Task row and its column defaults             *)
(*   backend/routes/tasks.py  the six task handlers                        *)
(*                                                                         *)
(* Two specifications share the module:                                    *)
(*   Spec      the task handlers acting on the tasks table; the verified   *)
(*             identity (the value Depends(verify_token) hands to the      *)
(*             handler) is an input of every request;                      *)
(*   SpecAuth  verify_token applied to a bearer token, under the strict    *)
(*             and the TEST_MODE configuration.                            *)
(***************************************************************************)
EXTENDS Integers, Sequences, FiniteSets, TLC

VARIABLES
    tasks,       \* the tasks table: id -> row
    nextId,      \* the next id the table's serial primary key gives
    clock,       \* the reading of datetime.utcnow()
    req,         \* the request being answered (NoRequest when idle)
    resp,        \* the response to it (NoResponse when idle)
    cfg,         \* auth.py's configuration
    token,       \* the bearer token handed to verify_token
    authResult   \* what verify_token did with it

vars == <<tasks, nextId, clock, req, resp, cfg, token, authResult>>

authVars == <<cfg, token, authResult>>

(***************************************************************************)
(* Bounds of the model.                                                    *)
(***************************************************************************)
\* number of rows the tasks table ever receives (ids 1..MaxTasks)
MaxTasks == 2
\* last reading of datetime.utcnow() (readings are 0..MaxClock)
MaxClock == 1

(***************************************************************************)
(* Program constants.                                                      *)
(***************************************************************************)
TITLE_MIN_LENGTH == 1
TITLE_MAX_LENGTH == 200
DESCRIPTION_MAX_LENGTH == 1000
LIMIT_MIN == 1
LIMIT_MAX == 100
OFFSET_MIN == 0
TOKEN_PARTS == 3

HTTP_201_CREATED == 201
HTTP_204_NO_CONTENT == 204
HTTP_401_UNAUTHORIZED == 401
HTTP_403_FORBIDDEN == 403
HTTP_404_NOT_FOUND == 404

\* Python's None (an absent description, an empty response body)
None == [none |-> TRUE]

\* A string is modelled by its first character and its length (the character
\* repeated): enough for the length checks and for lexicographic order.
Str(c, n) == [c |-> c, len |-> n]

Len_(s) == s.len

Users == {"alice", "bob"}

(***************************************************************************)
(* Request inputs.                                                         *)
(***************************************************************************)
\* titles of length 0, 1, 200 and 201
TitleInputs == {Str("a", 0), Str("a", 1), Str("b", 200), Str("b", 201)}
\* descriptions: absent, of length 1000 and of length 1001
DescriptionInputs == {None, Str("d", 1000), Str("d", 1001)}
\* ids a request can name: every id the table can hold and one it never holds
TaskIds == 1..(MaxTasks + 1)
StatusFilters == {"all", "pending", "completed"}
SortFields == {"created", "updated", "title"}
SortOrders == {"asc", "desc"}
LimitInputs == {0, 1, 100, 101}
OffsetInputs == {-1, 0, 1}

(***************************************************************************)
(* schemas.py: request validation, done by the framework before the handler *)
(* body runs (a failure is FastAPI's RequestValidationError, status 422).  *)
(***************************************************************************)
ValidTitle(title) ==
    /\ Len_(title) >= TITLE_MIN_LENGTH
    /\ Len_(title) <= TITLE_MAX_LENGTH

ValidDescription(description) ==
    description = None \/ Len_(description) <= DESCRIPTION_MAX_LENGTH

\* TaskCreate
ValidTaskCreate(title, description) ==
    ValidTitle(title) /\ ValidDescription(description)

\* TaskUpdate
ValidTaskUpdate(title, description) ==
    ValidTitle(title) /\ ValidDescription(description)

\* get_tasks: limit = Query(100, ge=1, le=100), offset = Query(0, ge=0)
ValidListQuery(limit, offset) ==
    /\ limit >= LIMIT_MIN
    /\ limit <= LIMIT_MAX
    /\ offset >= OFFSET_MIN

(***************************************************************************)
(* auth.py: verify_user_access.  TRUE when the call returns, FALSE when it *)
(* raises HTTPException(403).                                              *)
(***************************************************************************)
verify_user_access(user_id, authenticated_user_id) ==
    ~(user_id # authenticated_user_id)

(***************************************************************************)
(* Requests and responses.  A request names the handler, the path's        *)
(* user_id, the identity verify_token returned and the path's task_id (0   *)
(* when the path has none).  A response is what goes on the wire.          *)
(***************************************************************************)
Request(op, user_id, authenticated_user_id, task_id) ==
    [op |-> op, user_id |-> user_id, auth |-> authenticated_user_id,
     task_id |-> task_id]

Response(status, detail, body) ==
    [status |-> status, detail |-> detail, body |-> body]

\* HTTPException(403) of verify_user_access
Forbidden ==
    Response(HTTP_403_FORBIDDEN, "Cannot access another user's resources", None)

\* HTTPException(404) of the handlers
TaskNotFound == Response(HTTP_404_NOT_FOUND, "Task not found", None)

\* the framework's answer to a request that fails validation
RequestValidationError == Response(422, "validation error", None)

(***************************************************************************)
(* models.py: the Task row; routes/tasks.py: what the handlers do to it.   *)
(***************************************************************************)
\* Task(user_id=..., title=..., description=...): completed defaults to False,
\* created_at and updated_at each come from their own datetime.utcnow() call
NewTask(id, user_id, title, description, created_now, updated_now) ==
    [id |-> id, user_id |-> user_id, title |-> title,
     description |-> description, completed |-> FALSE,
     created_at |-> created_now, updated_at |-> updated_now]

\* session.get(Task, task_id)
SessionGet(store, task_id) ==
    IF task_id \in DOMAIN store THEN store[task_id] ELSE None

\* a lookup that forgets the owner: `not task`
NotFoundOnly(task, user_id) ==
    task = None

\* the test `not task or task.user_id != user_id`
NotFoundOrNotOwned(task, user_id) ==
    task = None \/ task.user_id # user_id

\* an update that also resets the completion flag
UpdatedAndReopened(task, title, description, now) ==
    [task EXCEPT !.title = title, !.description = description,
                 !.completed = FALSE, !.updated_at = now]

\* update_task: lines 204-206
UpdatedTask(task, title, description, now) ==
    [task EXCEPT !.title = title, !.description = description,
                 !.updated_at = now]

\* a handler that marks the task complete instead of flipping the flag
MarkedComplete(task, now) ==
    [task EXCEPT !.completed = TRUE, !.updated_at = now]

\* toggle_task_complete: lines 250-251
ToggledTask(task, now) ==
    [task EXCEPT !.completed = ~task.completed, !.updated_at = now]

\* session.add(task); session.commit() of a new or a changed row
Saved(store, task) ==
    [i \in DOMAIN store \cup {task.id} |-> IF i = task.id THEN task ELSE store[i]]

\* session.delete(task); session.commit()
Deleted(store, task) ==
    [i \in DOMAIN store \ {task.id} |-> store[i]]

(***************************************************************************)
(* routes/tasks.py, get_tasks: the query and the statistics.               *)
(***************************************************************************)
\* select(Task).where(Task.user_id == user_id)
OwnedBy(store, user_id) ==
    {store[i] : i \in {j \in DOMAIN store : store[j].user_id = user_id}}

\* the status filter of lines 97-100
MatchesStatus(task, status_filter) ==
    CASE status_filter = "pending" -> task.completed = FALSE
      [] status_filter = "completed" -> task.completed = TRUE
      [] OTHER -> TRUE

CharRank(c) == CASE c = "a" -> 1 [] c = "b" -> 2 [] OTHER -> 3

\* lexicographic order of two strings
StrLeq(s, t) ==
    \/ Len_(s) = 0
    \/ /\ Len_(t) > 0
       /\ \/ CharRank(s.c) < CharRank(t.c)
          \/ s.c = t.c /\ Len_(s) <= Len_(t)

\* order of two rows in the column chosen by sort (lines 103-105)
SortFieldLeq(t1, t2, sort) ==
    CASE sort = "created" -> t1.created_at <= t2.created_at
      [] sort = "updated" -> t1.updated_at <= t2.updated_at
      [] OTHER -> StrLeq(t1.title, t2.title)

\* order_by(sort_field.asc()) or order_by(sort_field.desc()), lines 107-110
InOrder(t1, t2, sort, order) ==
    IF order = "asc" THEN SortFieldLeq(t1, t2, sort)
                     ELSE SortFieldLeq(t2, t1, sort)

\* the orders in which the database may return the rows of a set under
\* ORDER BY one column: rows equal in that column come in any order
OrderedBy(rows, sort, order) ==
    LET n == Cardinality(rows)
    IN  {q \in [1..n -> rows] :
            /\ \A i, j \in 1..n : i # j => q[i] # q[j]
            /\ \A i \in 1..n : i < n => InOrder(q[i], q[i + 1], sort, order)}

\* a page that counts its last row from the start of the result, not from
\* the offset
PageEndingAtLimit(q, offset, limit) ==
    LET last == IF limit < Len(q) THEN limit ELSE Len(q)
    IN  SubSeq(q, offset + 1, last)

\* query.offset(offset).limit(limit)
Page(q, offset, limit) ==
    LET last == IF offset + limit < Len(q) THEN offset + limit ELSE Len(q)
    IN  SubSeq(q, offset + 1, last)

\* the lists session.exec(query).all() may return (lines 94-116)
QueryResults(store, user_id, status_filter, sort, order, limit, offset) ==
    LET rows == {t \in OwnedBy(store, user_id) : MatchesStatus(t, status_filter)}
    IN  {Page(q, offset, limit) : q \in OrderedBy(rows, sort, order)}

\* statistics whose query lost its where clause: every user's rows
StatisticsOfAllRows(store, user_id) ==
    LET all_tasks == {store[i] : i \in DOMAIN store}
    IN  [total |-> Cardinality(all_tasks),
         pending |-> Cardinality({t \in all_tasks : ~t.completed}),
         completed |-> Cardinality({t \in all_tasks : t.completed})]

\* lines 119-124
Statistics(store, user_id) ==
    LET all_tasks == OwnedBy(store, user_id)
    IN  [total |-> Cardinality(all_tasks),
         pending |-> Cardinality({t \in all_tasks : ~t.completed}),
         completed |-> Cardinality({t \in all_tasks : t.completed})]

\* TaskListResponse(tasks=tasks, total=total, pending=pending, completed=completed)
TaskListResponse(items, stats) ==
    [tasks |-> items, total |-> stats.total, pending |-> stats.pending,
     completed |-> stats.completed]

(***************************************************************************)
(* The state after start-up: an empty tasks table.                         *)
(***************************************************************************)
EmptyStore == [i \in {} |-> None]

NoRequest == Request("none", "", "", 0)

NoResponse == Response(0, "", None)

NoToken ==
    [parts |-> 0, b64 |-> FALSE, utf8 |-> FALSE, json |-> "invalid",
     sig |-> FALSE, exp |-> "absent", sub |-> [type |-> "absent", value |-> ""]]

NoResult ==
    [kind |-> "none", identity |-> [type |-> "absent", value |-> ""],
     status |-> 0, detail |-> "", www_authenticate |-> ""]

InitTasks ==
    /\ tasks = EmptyStore
    /\ nextId = 1
    /\ clock = 0
    /\ req = NoRequest
    /\ resp = NoResponse

Init ==
    /\ InitTasks
    /\ cfg = [TEST_MODE |-> FALSE, verify_sub |-> FALSE]
    /\ token = NoToken
    /\ authResult = NoResult

(***************************************************************************)
(* The handlers of routes/tasks.py.  authenticated_user_id is the value    *)
(* Depends(verify_token) returned.  The framework validates the path,      *)
(* query and body parameters after the dependencies and before the handler *)
(* body, so a request that fails validation never reaches                  *)
(* verify_user_access.  Requests are answered one after the other: a       *)
(* handler starts when the previous response has been sent.                *)
(***************************************************************************)
\* what a handler did: its response and the tasks table it leaves
Outcome(response, store) == [resp |-> response, tasks |-> store]

\* create_task, lines 45-58; id is the key the table gives the new row
CreateOutcome(store, id, user_id, authenticated_user_id, title, description, created_now, updated_now) ==
    IF ~ValidTaskCreate(title, description)
    THEN Outcome(RequestValidationError, store)
    ELSE IF ~verify_user_access(user_id, authenticated_user_id)
    THEN Outcome(Forbidden, store)
    ELSE LET task == NewTask(id, user_id, title, description, created_now,
                             updated_now)
         IN  Outcome(Response(HTTP_201_CREATED, "", task), Saved(store, task))

\* get_tasks, lines 91-126: the outcomes the query's row order allows
ListOutcomes(store, user_id, authenticated_user_id, status_filter, sort, order, limit, offset) ==
    IF ~ValidListQuery(limit, offset)
    THEN {Outcome(RequestValidationError, store)}
    ELSE IF ~verify_user_access(user_id, authenticated_user_id)
    THEN {Outcome(Forbidden, store)}
    ELSE {Outcome(Response(200, "",
                           TaskListResponse(items, Statistics(store, user_id))),
                  store) :
            items \in QueryResults(store, user_id, status_filter, sort, order,
                                   limit, offset)}

\* get_task, lines 152-163
GetOutcome(store, user_id, authenticated_user_id, task_id) ==
    LET task == SessionGet(store, task_id)
    IN  IF ~verify_user_access(user_id, authenticated_user_id)
        THEN Outcome(Forbidden, store)
        ELSE IF NotFoundOrNotOwned(task, user_id)
        THEN Outcome(TaskNotFound, store)
        ELSE Outcome(Response(200, "", task), store)

\* update_task, lines 192-212
UpdateOutcome(store, now, user_id, authenticated_user_id, task_id, title, description) ==
    LET task == SessionGet(store, task_id)
    IN  IF ~ValidTaskUpdate(title, description)
        THEN Outcome(RequestValidationError, store)
        ELSE IF ~verify_user_access(user_id, authenticated_user_id)
        THEN Outcome(Forbidden, store)
        ELSE IF NotFoundOrNotOwned(task, user_id)
        THEN Outcome(TaskNotFound, store)
        ELSE LET updated == UpdatedTask(task, title, description, now)
             IN  Outcome(Response(200, "", updated), Saved(store, updated))

\* toggle_task_complete, lines 238-257
ToggleOutcome(store, now, user_id, authenticated_user_id, task_id) ==
    LET task == SessionGet(store, task_id)
    IN  IF ~verify_user_access(user_id, authenticated_user_id)
        THEN Outcome(Forbidden, store)
        ELSE IF NotFoundOrNotOwned(task, user_id)
        THEN Outcome(TaskNotFound, store)
        ELSE LET toggled == ToggledTask(task, now)
             IN  Outcome(Response(200, "", toggled), Saved(store, toggled))

\* delete_task, lines 282-295
DeleteOutcome(store, user_id, authenticated_user_id, task_id) ==
    LET task == SessionGet(store, task_id)
    IN  IF ~verify_user_access(user_id, authenticated_user_id)
        THEN Outcome(Forbidden, store)
        ELSE IF NotFoundOrNotOwned(task, user_id)
        THEN Outcome(TaskNotFound, store)
        ELSE Outcome(Response(HTTP_204_NO_CONTENT, "", None),
                     Deleted(store, task))

\* POST /{user_id}/tasks.  The row's created_at is the clock's reading, its
\* updated_at the reading of a second call, updated_now.
create_task(user_id, authenticated_user_id, title, description, updated_now) ==
    LET out == CreateOutcome(tasks, nextId, user_id, authenticated_user_id,
                             title, description, clock, updated_now)
    IN  /\ req = NoRequest
        /\ req' = Request("create", user_id, authenticated_user_id, 0)
        /\ resp' = out.resp
        /\ tasks' = out.tasks
        /\ IF out.resp.status = HTTP_201_CREATED
           THEN /\ nextId <= MaxTasks
                /\ nextId' = nextId + 1
                /\ clock' = updated_now
           ELSE UNCHANGED <<nextId, clock>>
        /\ UNCHANGED authVars

\* GET /{user_id}/tasks
get_tasks(user_id, authenticated_user_id, status_filter, sort, order, limit, offset) ==
    /\ req = NoRequest
    /\ req' = Request("list", user_id, authenticated_user_id, 0)
    /\ \E out \in ListOutcomes(tasks, user_id, authenticated_user_id,
                                status_filter, sort, order, limit, offset) :
           /\ resp' = out.resp
           /\ tasks' = out.tasks
    /\ UNCHANGED <<nextId, clock>>
    /\ UNCHANGED authVars

\* GET /{user_id}/tasks/{task_id}
get_task(user_id, authenticated_user_id, task_id) ==
    LET out == GetOutcome(tasks, user_id, authenticated_user_id, task_id)
    IN  /\ req = NoRequest
        /\ req' = Request("get", user_id, authenticated_user_id, task_id)
        /\ resp' = out.resp
        /\ tasks' = out.tasks
        /\ UNCHANGED <<nextId, clock>>
        /\ UNCHANGED authVars

\* PUT /{user_id}/tasks/{task_id}
update_task(user_id, authenticated_user_id, task_id, title, description) ==
    LET out == UpdateOutcome(tasks, clock, user_id, authenticated_user_id,
                             task_id, title, description)
    IN  /\ req = NoRequest
        /\ req' = Request("update", user_id, authenticated_user_id, task_id)
        /\ resp' = out.resp
        /\ tasks' = out.tasks
        /\ UNCHANGED <<nextId, clock>>
        /\ UNCHANGED authVars

\* PATCH /{user_id}/tasks/{task_id}/complete
toggle_task_complete(user_id, authenticated_user_id, task_id) ==
    LET out == ToggleOutcome(tasks, clock, user_id, authenticated_user_id,
                             task_id)
    IN  /\ req = NoRequest
        /\ req' = Request("toggle", user_id, authenticated_user_id, task_id)
        /\ resp' = out.resp
        /\ tasks' = out.tasks
        /\ UNCHANGED <<nextId, clock>>
        /\ UNCHANGED authVars

\* DELETE /{user_id}/tasks/{task_id}
delete_task(user_id, authenticated_user_id, task_id) ==
    LET out == DeleteOutcome(tasks, user_id, authenticated_user_id, task_id)
    IN  /\ req = NoRequest
        /\ req' = Request("delete", user_id, authenticated_user_id, task_id)
        /\ resp' = out.resp
        /\ tasks' = out.tasks
        /\ UNCHANGED <<nextId, clock>>
        /\ UNCHANGED authVars

\* the handler has returned (or raised) and the response is sent
SendResponse ==
    /\ req # NoRequest
    /\ req' = NoRequest
    /\ resp' = NoResponse
    /\ UNCHANGED <<tasks, nextId, clock>>
    /\ UNCHANGED authVars

\* time passes between two requests: the next datetime.utcnow() is later
Tick ==
    /\ req = NoRequest
    /\ clock < MaxClock
    /\ clock' = clock + 1
    /\ UNCHANGED <<tasks, nextId, req, resp>>
    /\ UNCHANGED authVars

\* the readings the second datetime.utcnow() of one Task(...) call can give
\* after the first gave `clock`
LaterReadings == {t \in {clock, clock + 1} : t <= MaxClock}

CreateRequest ==
    \E user_id, authenticated_user_id \in Users :
        \E title \in TitleInputs, description \in DescriptionInputs :
            \E updated_now \in LaterReadings :
                create_task(user_id, authenticated_user_id, title, description,
                            updated_now)

ListRequest ==
    \E user_id, authenticated_user_id \in Users :
        \E status_filter \in StatusFilters, sort \in SortFields,
           order \in SortOrders, limit \in LimitInputs, offset \in OffsetInputs :
            get_tasks(user_id, authenticated_user_id, status_filter, sort,
                      order, limit, offset)

GetRequest ==
    \E user_id, authenticated_user_id \in Users, task_id \in TaskIds :
        get_task(user_id, authenticated_user_id, task_id)

UpdateRequest ==
    \E user_id, authenticated_user_id \in Users, task_id \in TaskIds :
        \E title \in TitleInputs, description \in DescriptionInputs :
            update_task(user_id, authenticated_user_id, task_id, title,
                        description)

ToggleRequest ==
    \E user_id, authenticated_user_id \in Users, task_id \in TaskIds :
        toggle_task_complete(user_id, authenticated_user_id, task_id)

DeleteRequest ==
    \E user_id, authenticated_user_id \in Users, task_id \in TaskIds :
        delete_task(user_id, authenticated_user_id, task_id)

Next ==
    \/ CreateRequest
    \/ ListRequest
    \/ GetRequest
    \/ UpdateRequest
    \/ ToggleRequest
    \/ DeleteRequest
    \/ SendResponse
    \/ Tick

Spec == Init /\ [][Next]_vars

(***************************************************************************)
(* auth.py: verify_token.                                                  *)
(*                                                                         *)
(* A bearer token is modelled by what verify_token and jwt.decode look at: *)
(*   parts  the number of dot-separated segments;                          *)
(*   b64    the payload segment is decodable base64;                       *)
(*   utf8   the decoded bytes are UTF-8 text;                              *)
(*   json   that text is no JSON ("invalid"), a JSON object ("object") or  *)
(*          JSON of another type: a list, a string, a number, null         *)
(*          ("other");                                                     *)
(*   sig    the signature verifies under JWT_SECRET and JWT_ALGORITHM;     *)
(*   exp    the payload's exp claim: absent, in the past or in the future; *)
(*   sub    the payload's sub claim, with its JSON type.                   *)
(***************************************************************************)
\* most segments a token of the model has
MaxSegments == 4

Sub(type, value) == [type |-> type, value |-> value]

NoSub == Sub("absent", "")

SubValues ==
    {NoSub, Sub("null", ""), Sub("str", "alice"), Sub("str", "Alice"),
     Sub("str", ""), Sub("int", "7"), Sub("bool", "true"), Sub("list", "[]"),
     Sub("object", "{}")}

ExpValues == {"absent", "past", "future"}

\* fields nothing can read are held at one value each
Canonical(t) ==
    /\ t.parts # TOKEN_PARTS => ~t.b64 /\ ~t.sig
    /\ ~t.b64 => ~t.utf8
    /\ ~t.utf8 => t.json = "invalid"
    /\ t.json # "object" => t.exp = "absent" /\ t.sub = NoSub

Tokens ==
    {t \in [parts : 1..MaxSegments, b64 : BOOLEAN, utf8 : BOOLEAN,
            json : {"invalid", "object", "other"}, sig : BOOLEAN,
            exp : ExpValues, sub : SubValues] : Canonical(t)}

\* TEST_MODE (line 19), and whether the installed PyJWT checks that sub is a
\* string (it does from release 2.10 on: InvalidSubjectError)
Configs == [TEST_MODE : BOOLEAN, verify_sub : BOOLEAN]

\* verify_token returned user_id
Identity(user_id) ==
    [kind |-> "identity", identity |-> user_id, status |-> 200, detail |-> "",
     www_authenticate |-> ""]

\* verify_token raised HTTPException(401, detail, {"WWW-Authenticate": "Bearer"})
Unauthorized(detail) ==
    [kind |-> "HTTPException", identity |-> NoSub,
     status |-> HTTP_401_UNAUTHORIZED, detail |-> detail,
     www_authenticate |-> "Bearer"]

\* verify_token let another exception escape: the framework answers 500
Unhandled(exception) ==
    [kind |-> exception, identity |-> NoSub, status |-> 500,
     detail |-> "Internal Server Error", www_authenticate |-> ""]

\* payload.get("sub"): None when the claim is absent or null
PayloadGetSub(t) ==
    IF t.sub.type \in {"absent", "null"} THEN None ELSE t.sub

\* lines 74-84, reached with a payload that is a dict
ExtractUserId(t) ==
    LET user_id == PayloadGetSub(t)
    IN  IF user_id = None
        THEN Unauthorized("Invalid authentication credentials")
        ELSE Identity(user_id)

\* lines 51-69 and 74-84: the TEST_MODE branch
VerifyTestMode(t) ==
    IF t.parts # TOKEN_PARTS
    THEN Unauthorized("Invalid token format")
    ELSE IF ~t.b64 \/ ~t.utf8 \/ t.json = "invalid"
    \* binascii.Error, UnicodeDecodeError (both ValueError), JSONDecodeError
    THEN Unauthorized("Could not validate credentials")
    ELSE IF t.json # "object"
    \* payload.get on a list, str, int or None
    THEN Unhandled("AttributeError")
    ELSE ExtractUserId(t)

\* line 72, jwt.decode(token, JWT_SECRET, algorithms=[JWT_ALGORITHM]): the
\* exception it raises, or "" when it returns the payload.  The signature is
\* verified before the payload is parsed and the claims are validated.
JwtDecode(t, verify_sub) ==
    IF t.parts # TOKEN_PARTS \/ ~t.b64 THEN "DecodeError"
    ELSE IF ~t.sig THEN "InvalidSignatureError"
    ELSE IF ~t.utf8 \/ t.json # "object" THEN "DecodeError"
    ELSE IF t.exp = "past" THEN "ExpiredSignatureError"
    ELSE IF verify_sub /\ t.sub.type \notin {"absent", "str"}
    THEN "InvalidSubjectError"
    ELSE ""

\* lines 70-97: the production branch and the except clauses
VerifyStrict(t, verify_sub) ==
    LET raised == JwtDecode(t, verify_sub)
    IN  IF raised = "ExpiredSignatureError"
        THEN Unauthorized("Token has expired")
        ELSE IF raised # ""
        THEN Unauthorized("Could not validate credentials")
        ELSE ExtractUserId(t)

verify_token(config, t) ==
    IF config.TEST_MODE THEN VerifyTestMode(t)
                        ELSE VerifyStrict(t, config.verify_sub)

InitAuth ==
    /\ InitTasks
    /\ cfg \in Configs
    /\ token \in Tokens
    /\ authResult = NoResult

\* Depends(verify_token) runs on the request's token
VerifyToken ==
    /\ authResult = NoResult
    /\ authResult' = verify_token(cfg, token)
    /\ UNCHANGED <<cfg, token, tasks, nextId, clock, req, resp>>

\* the next request brings its own token
NextToken ==
    /\ authResult # NoResult
    /\ token' \in Tokens
    /\ authResult' = NoResult
    /\ UNCHANGED <<cfg, tasks, nextId, clock, req, resp>>

NextAuth ==
    \/ VerifyToken
    \/ NextToken

SpecAuth == InitAuth /\ [][NextAuth]_vars

(***************************************************************************)
(* Concurrent requests (SpecConc).  Several workers serve requests against *)
(* the one database.  get_tasks runs two SELECT statements in its session, *)
(* the page query (line 116) and the statistics query (line 120); the      *)
(* engine is created without an isolation level, so each statement reads   *)
(* the rows committed when it runs, and other requests' commits can fall   *)
(* between the two.  req and resp follow one list request; the requests of *)
(* the other workers act on the table and answer their own clients.        *)
(***************************************************************************)
\* the list request between its two statements: the page is read, the
\* statistics are not
PageRead(items, status_filter) ==
    Response(0, "", [tasks |-> items, status_filter |-> status_filter])

Listing == req.op = "list" /\ resp.status = 0

\* get_tasks, lines 91-116: validation, access check and the page query
ListBegin(user_id, authenticated_user_id, status_filter, sort, order, limit, offset) ==
    /\ req = NoRequest
    /\ req' = Request("list", user_id, authenticated_user_id, 0)
    /\ IF ~ValidListQuery(limit, offset)
       THEN resp' = RequestValidationError
       ELSE IF ~verify_user_access(user_id, authenticated_user_id)
       THEN resp' = Forbidden
       ELSE \E items \in QueryResults(tasks, user_id, status_filter, sort,
                                       order, limit, offset) :
                resp' = PageRead(items, status_filter)
    /\ UNCHANGED <<tasks, nextId, clock>>
    /\ UNCHANGED authVars

\* get_tasks, lines 118-126: the statistics query and the response
ListFinish ==
    /\ Listing
    /\ resp' = Response(200, "",
                        TaskListResponse(resp.body.tasks,
                                         Statistics(tasks, req.user_id)))
    /\ UNCHANGED <<tasks, nextId, clock, req>>
    /\ UNCHANGED authVars

\* another worker's create_task commits
ConcurrentCreate(user_id, title, description) ==
    LET out == CreateOutcome(tasks, nextId, user_id, user_id, title,
                             description, clock, clock)
    IN  /\ out.resp.status = HTTP_201_CREATED
        /\ nextId <= MaxTasks
        /\ tasks' = out.tasks
        /\ nextId' = nextId + 1
        /\ UNCHANGED <<clock, req, resp>>
        /\ UNCHANGED authVars

\* another worker's toggle_task_complete commits
ConcurrentToggle(user_id, task_id) ==
    LET out == ToggleOutcome(tasks, clock, user_id, user_id, task_id)
    IN  /\ out.resp.status = 200
        /\ tasks' = out.tasks
        /\ UNCHANGED <<nextId, clock, req, resp>>
        /\ UNCHANGED authVars

\* another worker's delete_task commits
ConcurrentDelete(user_id, task_id) ==
    LET out == DeleteOutcome(tasks, user_id, user_id, task_id)
    IN  /\ out.resp.status = HTTP_204_NO_CONTENT
        /\ tasks' = out.tasks
        /\ UNCHANGED <<nextId, clock, req, resp>>
        /\ UNCHANGED authVars

ListBeginRequest ==
    \E user_id, authenticated_user_id \in Users :
        \E status_filter \in StatusFilters, sort \in SortFields,
           order \in SortOrders, limit \in LimitInputs, offset \in OffsetInputs :
            ListBegin(user_id, authenticated_user_id, status_filter, sort,
                      order, limit, offset)

ConcurrentCreateRequest ==
    \E user_id \in Users :
        \E title \in TitleInputs, description \in DescriptionInputs :
            ConcurrentCreate(user_id, title, description)

ConcurrentToggleRequest ==
    \E user_id \in Users, task_id \in TaskIds :
        ConcurrentToggle(user_id, task_id)

ConcurrentDeleteRequest ==
    \E user_id \in Users, task_id \in TaskIds :
        ConcurrentDelete(user_id, task_id)

\* the list response is sent
ListSendResponse ==
    /\ req # NoRequest
    /\ ~Listing
    /\ SendResponse

NextConc ==
    \/ ListBeginRequest
    \/ ListFinish
    \/ ConcurrentCreateRequest
    \/ ConcurrentToggleRequest
    \/ ConcurrentDeleteRequest
    \/ ListSendResponse

SpecConc == Init /\ [][NextConc]_vars

(***************************************************************************)
(* Properties of the task handlers (Spec).  A step that answers a request  *)
(* leads from an idle state (req = NoRequest) to one that holds the        *)
(* request in req' and its response in resp'; tasks is the table before    *)
(* the request and tasks' the table after it.                              *)
(***************************************************************************)
Answers(ops) == req = NoRequest /\ req'.op \in ops

TaskOps == {"create", "list", "get", "update", "toggle", "delete"}

ByIdOps == {"get", "update", "toggle", "delete"}

\* ids of the rows of a table that belong to user_id
IdsOf(store, user_id) == {i \in DOMAIN store : store[i].user_id = user_id}

\* an id no row has
AbsentId == MaxTasks + 1

\* C1: a request of any of the six task operations whose path identity
\* differs from the verified identity ends in 403 Forbidden and nothing else,
\* whatever its other inputs (task id existing or not, body valid or not),
\* and leaves the tasks table as it was.
C1_MismatchIsForbidden ==
    [][(Answers(TaskOps) /\ req'.user_id # req'.auth)
          => (resp' = Forbidden /\ tasks' = tasks)]_vars

\* the response the same caller gets from the same handler for an id that
\* does not exist, with a body that passes validation where there is one
AbsentIdResponses(op, store, now, user_id) ==
    CASE op = "get" -> {GetOutcome(store, user_id, user_id, AbsentId).resp}
      [] op = "toggle" ->
            {ToggleOutcome(store, now, user_id, user_id, AbsentId).resp}
      [] op = "delete" ->
            {DeleteOutcome(store, user_id, user_id, AbsentId).resp}
      [] op = "update" ->
            {UpdateOutcome(store, now, user_id, user_id, AbsentId, t, d).resp :
                t \in {x \in TitleInputs : ValidTitle(x)},
                d \in {x \in DescriptionInputs : ValidDescription(x)}}

\* the request in req' names a row that exists and belongs to someone else,
\* comes from a caller whose path identity is the verified one, and passed
\* the validation of its body
CrossOwnerRequest ==
    /\ Answers(ByIdOps)
    /\ req'.user_id = req'.auth
    /\ req'.task_id \in DOMAIN tasks
    /\ tasks[req'.task_id].user_id # req'.user_id
    /\ resp' # RequestValidationError

C3_StatisticsOverAllOwnTasks ==
    (req.op = "list" /\ resp.status = 200)
        => LET mine == IdsOf(tasks, req.user_id)
           IN  /\ resp.body.total = Cardinality(mine)
               /\ resp.body.pending =
                      Cardinality({i \in mine : tasks[i].completed = FALSE})
               /\ resp.body.completed =
                      Cardinality({i \in mine : tasks[i].completed = TRUE})

\* a page shorter than the owner's task set, beside another user's task
C3_Witness ==
    /\ req.op = "list"
    /\ resp.status = 200
    /\ resp.body.total = 1
    /\ resp.body.completed = 1
    /\ Len(resp.body.tasks) = 0
    /\ Cardinality(DOMAIN tasks) = 2

\* C7: create(owner, T, D) with a valid title and a valid or absent
\* description, followed by get(owner, id) with the id it returned, returns
\* title T, description D, completed = false, owner_id = owner and
\* created_at = updated_at.
C7_CreateThenGet ==
    [][\A t \in TitleInputs, d \in DescriptionInputs, n \in 0..MaxClock :
          (/\ Answers({"create"})
           /\ resp'.status = HTTP_201_CREATED
           /\ create_task(req'.user_id, req'.auth, t, d, n))
          => LET got == GetOutcome(tasks', req'.user_id, req'.user_id,
                                   resp'.body.id).resp
             IN  /\ got.status = 200
                 /\ got.body.title = t
                 /\ got.body.description = d
                 /\ got.body.completed = FALSE
                 /\ got.body.user_id = req'.user_id
                 /\ got.body.created_at = got.body.updated_at]_vars

\* C8: two successful toggles of a task by its owner, one after the other,
\* leave completed at its value before the first, and the first response
\* shows the opposite value.
C8_ToggleTwiceRestores ==
    [][(Answers({"toggle"}) /\ resp'.status = 200)
          => LET id == req'.task_id
                 before == tasks[id].completed
                 second == ToggleOutcome(tasks', clock', req'.user_id,
                                         req'.auth, id)
             IN  /\ resp'.body.completed = ~before
                 /\ tasks'[id].completed = ~before
                 /\ second.resp.status = 200
                 /\ second.tasks[id].completed = before]_vars

\* completed starts FALSE and only a toggle changes it: a toggle that answers
\* completed = FALSE is at least the second toggle of its task
C8_Witness ==
    /\ req.op = "toggle"
    /\ resp.status = 200
    /\ resp.body.completed = FALSE
    /\ tasks[req.task_id].completed = FALSE

\* C9: every successful toggle leaves the task's updated_at strictly greater
\* than it was immediately before the toggle, and never below created_at.
C9_ToggleAdvancesUpdatedAt ==
    [][(Answers({"toggle"}) /\ resp'.status = 200)
          => /\ tasks'[req'.task_id].updated_at > tasks[req'.task_id].updated_at
             /\ tasks'[req'.task_id].updated_at
                    >= tasks'[req'.task_id].created_at]_vars

\* C10: a successful update changes only the title, description and
\* updated_at of the task with that id (its id, owner, completed and
\* created_at stay, every other task stays); a failed update changes nothing.
C10_UpdateFrame ==
    [][Answers({"update"})
          => IF resp'.status = 200
             THEN LET id == req'.task_id
                  IN  /\ DOMAIN tasks' = DOMAIN tasks
                      /\ \A i \in DOMAIN tasks \ {id} : tasks'[i] = tasks[i]
                      /\ tasks'[id].id = tasks[id].id
                      /\ tasks'[id].user_id = tasks[id].user_id
                      /\ tasks'[id].completed = tasks[id].completed
                      /\ tasks'[id].created_at = tasks[id].created_at
                      /\ nextId' = nextId
             ELSE /\ tasks' = tasks
                  /\ nextId' = nextId]_vars

\* an update of a completed task that changed its title, beside another task
C10_Witness ==
    /\ req.op = "update"
    /\ resp.status = 200
    /\ resp.body.completed = TRUE
    /\ tasks[req.task_id] = resp.body
    /\ resp.body.updated_at > resp.body.created_at
    /\ Cardinality(DOMAIN tasks) = 2

\* the value of the sort column of row t1 is at most that of row t2
ColumnLeq(t1, t2, sort) ==
    \/ sort = "created" /\ t1.created_at <= t2.created_at
    \/ sort = "updated" /\ t1.updated_at <= t2.updated_at
    \/ sort = "title" /\ StrLeq(t1.title, t2.title)

\* row t1 may stand before row t2 in a list sorted by sort in direction order
MayPrecede(t1, t2, sort, order) ==
    \/ order = "asc" /\ ColumnLeq(t1, t2, sort)
    \/ order = "desc" /\ ColumnLeq(t2, t1, sort)

\* the rows of user_id in the table that the status filter lets through
Matching(store, user_id, status_filter) ==
    {store[i] : i \in {j \in IdsOf(store, user_id) :
        \/ status_filter = "all"
        \/ status_filter = "pending" /\ store[j].completed = FALSE
        \/ status_filter = "completed" /\ store[j].completed = TRUE}}

\* items is the part at positions offset .. offset+limit-1 of the rows of
\* user_id that match the filter, put in the order of the sort column: the
\* items are matching rows, each once, in order; they number
\* min(limit, max(0, matching - offset)); and the matching rows left out
\* split into `offset` rows that may stand before every item and rows that
\* may stand after every item.
IsPageOf(items, store, user_id, status_filter, sort, order, limit, offset) ==
    LET rows == Matching(store, user_id, status_filter)
        n == Cardinality(rows)
        rest == IF n > offset THEN n - offset ELSE 0
        shown == {items[k] : k \in 1..Len(items)}
        skipped == IF offset < n THEN offset ELSE n
    IN  /\ shown \subseteq rows
        /\ \A k \in 1..Len(items) : items[k].user_id = user_id
        /\ \A j, k \in 1..Len(items) : j # k => items[j] # items[k]
        /\ \A k \in 1..Len(items) :
              k < Len(items) => MayPrecede(items[k], items[k + 1], sort, order)
        /\ Len(items) = IF limit < rest THEN limit ELSE rest
        /\ \E before \in SUBSET (rows \ shown) :
              /\ Cardinality(before) = skipped
              /\ \A b \in before, x \in shown : MayPrecede(b, x, sort, order)
              /\ \A a \in (rows \ shown) \ before, x \in shown :
                    MayPrecede(x, a, sort, order)

\* the query parameters for which get_tasks can give the response in resp
ListedWith(status_filter, sort, order, limit, offset) ==
    /\ req.op = "list"
    /\ resp.status = 200
    /\ \E out \in ListOutcomes(tasks, req.user_id, req.auth, status_filter,
                                sort, order, limit, offset) : out.resp = resp

\* C11: for every owner, status filter, sort field, sort order, limit in
\* 1..100 and offset >= 0, the items of a successful list are exactly the
\* elements at positions offset .. offset+limit-1 of the owner's tasks that
\* match the filter, ordered by the chosen field in the chosen direction: no
\* other user's task, no task outside the filter, non-decreasing (asc) or
\* non-increasing (desc) in the sort field, min(limit, max(0, matching -
\* offset)) of them; the filter is applied before pagination.
C11_ItemsAreThePage ==
    \A status_filter \in StatusFilters, sort \in SortFields,
       order \in SortOrders, limit \in LimitInputs, offset \in OffsetInputs :
        ListedWith(status_filter, sort, order, limit, offset)
            => /\ limit \in LIMIT_MIN..LIMIT_MAX
               /\ offset >= OFFSET_MIN
               /\ IsPageOf(resp.body.tasks, tasks, req.user_id, status_filter,
                           sort, order, limit, offset)

\* the second of two tasks of the owner, after the first was skipped: a list
\* sorted by title, descending, limit 1, offset 1 (or filtered to completed)
C11_Witness ==
    /\ ListedWith("all", "title", "desc", 1, 1)
    /\ Len(resp.body.tasks) = 1
    /\ resp.body.total = 2
    /\ \E i \in DOMAIN tasks :
          /\ tasks[i] # resp.body.tasks[1]
          /\ tasks[i].title # resp.body.tasks[1].title
          /\ StrLeq(resp.body.tasks[1].title, tasks[i].title)

(***************************************************************************)
(* Properties of a list request among concurrent requests (SpecConc).      *)
(***************************************************************************)
\* C12: under any interleaving of a list request for owner O with concurrent
\* create, toggle and delete requests on O's tasks, the list response is
\* consistent with itself: the items number at most total, at most pending
\* when the filter is pending, at most completed when the filter is
\* completed, and total = pending + completed.
C12_ListResponseIsOneState ==
    [][(Listing /\ resp'.status = 200)
          => LET n == Len(resp'.body.tasks)
                 status_filter == resp.body.status_filter
             IN  /\ n <= resp'.body.total
                 /\ status_filter = "pending" => n <= resp'.body.pending
                 /\ status_filter = "completed" => n <= resp'.body.completed
                 /\ resp'.body.total
                        = resp'.body.pending + resp'.body.completed]_vars

(***************************************************************************)
(* Properties of verify_token (SpecAuth).                                  *)
(***************************************************************************)
Verified == authResult.kind # "none"

Expired == Unauthorized("Token has expired")

\* C4: every three-part token whose exp claim lies in the past fails
\* verification with the Expired outcome, whether its signature is valid or
\* not, in strict mode and in TEST_MODE; none is accepted as an identity.
C4_ExpiredAlwaysRejected ==
    (Verified /\ token.parts = TOKEN_PARTS /\ token.exp = "past")
        => authResult = Expired

\* C5: every token on which verification does not succeed ends in the one
\* Unauthenticated result, 401 with WWW-Authenticate: Bearer, in both modes;
\* no token leads to another failure such as an internal error.
C5_EveryFailureIsUnauthenticated ==
    (Verified /\ authResult.kind # "identity")
        => /\ authResult.kind = "HTTPException"
           /\ authResult.status = HTTP_401_UNAUTHORIZED
           /\ authResult.www_authenticate = "Bearer"

\* the token passes every check verify_token makes before it reads sub
OtherwisePasses ==
    /\ token.parts = TOKEN_PARTS
    /\ token.b64 /\ token.utf8 /\ token.json = "object"
    /\ cfg.TEST_MODE \/ (token.sig /\ token.exp # "past")

\* C6: a token that otherwise passes and whose sub claim is absent or not a
\* string fails with 401 and yields no identity; an identity is returned only
\* for a string sub, and is that string unchanged.
C6_SubjectMustBeString ==
    /\ (Verified /\ OtherwisePasses /\ token.sub.type # "str")
           => /\ authResult.kind = "HTTPException"
              /\ authResult.status = HTTP_401_UNAUTHORIZED
    /\ (Verified /\ authResult.kind = "identity")
           => /\ token.sub.type = "str"
              /\ authResult.identity = token.sub

====
